---- MODULE Spec2Model ----
(***************************************************************************)
(* Model of api/index.py: the Mastodon -> Memos bridge.                    *)
(*                                                                         *)
(* One request is processed at a time (the handlers share no mutable       *)
(* state).  The upstream server is the environment: every outbound request *)
(* is answered by a nondeterministically chosen reply.                     *)
(*                                                                         *)
(* Encoding of JSON values.  TLC cannot compare a string with a number, so *)
(* a JSON scalar is the record [t, v]: t is "str", "num" or "none"         *)
(* (null / Python None) and v is the text of the value.  A JSON object is  *)
(* a record with the extra field `has`, the set of keys that are present;  *)
(* a key outside `has` is a missing key (KeyError on d[k], the default on  *)
(* d.get(k, default)).                                                     *)
(***************************************************************************)
EXTENDS Integers, Sequences, FiniteSets, TLC

\* ---------------------------------------------------------------- bounds
\* largest page-count ceiling passed to a direct call of the walker
MaxCeiling == 3
\* largest number of attachments of a post in the single-record lookup
MaxMedia == 2

\* --------------------------------------------------------------- settings
\* Settings.MAX_PAGE_SIZE and Settings.MAX_PAGES are pydantic settings
\* (defaults 80 and 5, overridable from the environment or .env); the model
\* runs the bridge configured with small values.  MAX_PAGE_SIZE is the
\* `limit` of every page request, and the upstream honours it: a page has at
\* most MAX_PAGE_SIZE posts.
MAX_PAGE_SIZE == 1
MAX_PAGES == 2

InstanceType == {"mastodon", "gotosocial", "pleroma"}

\* ------------------------------------------------------------ JSON scalars
None == [t |-> "none", v |-> ""]
Str(s) == [t |-> "str", v |-> s]
Num(s) == [t |-> "num", v |-> s]

\* Python truthiness of a scalar: None, "" and 0 are falsy.
Truthy(x) ==
    ~ \/ x.t = "none"
      \/ x.t = "str" /\ x.v = ""
      \/ x.t = "num" /\ x.v = "0"

\* Python str(x) of a string or of a number: its text.
str(x) == x.v

Last(s) == s[Len(s)]

RECURSIVE Concat(_)
Concat(ss) == IF ss = <<>> THEN <<>> ELSE Head(ss) \o Concat(Tail(ss))

\* all sequences over S of length 0..n
SeqUpTo(S, n) == UNION {[1..k -> S] : k \in 0..n}

\* ------------------------------------------------------------------- HTML
\* A post body is a sequence of nodes: text nodes and anchor elements.
TextNode(s) == [tag |-> "text", text |-> s, href |-> ""]
Anchor(h, s) == [tag |-> "a", text |-> s, href |-> h]

\* str.strip() on the text vocabulary of the model
strip(s) ==
    CASE s = "Hi " -> "Hi"
      [] s = "  " -> ""
      [] OTHER -> s

\* a.replace_with(...): an anchor becomes the string "text (href)" when the
\* href is non-empty, the text is non-empty and they differ, else its text.
\* The output line [text, href] stands for "text (href)" when href # "".
rewrite_anchor(n) ==
    IF n.tag = "a" /\ n.href # "" /\ n.text # "" /\ n.href # n.text
    THEN [text |-> n.text, href |-> n.href]
    ELSE [text |-> n.text, href |-> ""]

\* get_text(separator='\n') puts every string of the tree on its own line;
\* each line is stripped and the empty ones are dropped.
RECURSIVE clean_html_content(_)
clean_html_content(html) ==
    IF html = <<>> THEN <<>>
    ELSE LET n == rewrite_anchor(Head(html))
             line == [text |-> strip(n.text), href |-> n.href]
         IN  IF line.text = "" /\ line.href = ""
             THEN clean_html_content(Tail(html))
             ELSE <<line>> \o clean_html_content(Tail(html))

\* ------------------------------------------------------------- timestamps
\* datetime.fromisoformat(dt_str.replace('Z', '+00:00')) on the timestamps
\* of the model: [ok, epoch]; epoch is int(dt.timestamp()) (truncation).
fromisoformat(s) ==
    CASE s = "2024-01-01T00:00:00Z" -> [ok |-> TRUE, epoch |-> 1704067200]
      [] s = "2024-01-01T00:00:00+00:00" -> [ok |-> TRUE, epoch |-> 1704067200]
      [] s = "2024-01-01T08:00:01.900+08:00" -> [ok |-> TRUE, epoch |-> 1704067201]
      [] OTHER -> [ok |-> FALSE, epoch |-> 0]

\* the values datetime.now() can take while a request is served
Clock == {1800000000, 1800000001}

\* the successive readings of the clock: n values that never go back
Readings(n) == {r \in [1..n -> Clock] : \A i \in 1..n : \A j \in i..n : r[i] <= r[j]}

\* on a parse failure the current time is returned
datetime_to_timestamp(dt_str, now) ==
    LET p == fromisoformat(dt_str)
    IN  IF p.ok THEN p.epoch ELSE now

\* ------------------------------------------------------- upstream objects
\* an optional value: <<>> when the key is missing, <<x>> when it holds x
Opt(S) == {<<>>} \cup {<<x>> : x \in S}
Present(key, o) == IF o = <<>> THEN {} ELSE {key}

\* an attachment object {type, url, remote_url}
MkMedia(type, url, remote_url) ==
    [has |-> Present("type", type) \cup Present("url", url)
               \cup Present("remote_url", remote_url),
     type |-> IF type = <<>> THEN "" ELSE type[1],
     url |-> IF url = <<>> THEN None ELSE url[1],
     remote_url |-> IF remote_url = <<>> THEN None ELSE remote_url[1]]

\* the author object {username, display_name}
MkAccount(username, display_name) ==
    [has |-> Present("username", username) \cup Present("display_name", display_name),
     username |-> IF username = <<>> THEN "" ELSE username[1],
     display_name |-> IF display_name = <<>> THEN "" ELSE display_name[1]]

\* a status object
MkPost(id, content, created_at, account, visibility, pinned, media) ==
    [has |-> Present("id", id) \cup Present("content", content)
               \cup Present("created_at", created_at) \cup Present("account", account)
               \cup Present("visibility", visibility) \cup Present("pinned", pinned)
               \cup Present("media_attachments", media),
     id |-> IF id = <<>> THEN None ELSE id[1],
     content |-> IF content = <<>> THEN <<>> ELSE content[1],
     created_at |-> IF created_at = <<>> THEN "" ELSE created_at[1],
     account |-> IF account = <<>> THEN MkAccount(<<>>, <<>>) ELSE account[1],
     visibility |-> IF visibility = <<>> THEN "" ELSE visibility[1],
     pinned |-> IF pinned = <<>> THEN FALSE ELSE pinned[1],
     media_attachments |-> IF media = <<>> THEN <<>> ELSE media[1]]

\* ---------------------------------------------------------- MemoResource
\* pydantic accepts only a string for the str fields of MemoResource
IsStr(x) == x.t = "str"

\* an externalLink that is always the primary link
externalLink_primary(media) == media.url

\* media.get('remote_url', '') or media['url']
externalLink(media) ==
    LET remote == IF "remote_url" \in media.has THEN media.remote_url ELSE Str("")
    IN  IF Truthy(remote) THEN remote ELSE media.url

\* MemoResource(type=media['type'], link=media['url'], externalLink=...)
\* raises when a key is missing or a value is not a string
MediaConverts(media) ==
    /\ "type" \in media.has
    /\ "url" \in media.has
    /\ IsStr(media.url)
    /\ IsStr(externalLink(media))

MemoResource(media) ==
    [type |-> media.type, link |-> media.url.v, externalLink |-> externalLink(media).v]

\* --------------------------------------------------------- Post Converter
\* the attachments of a post: mastodon_post.get('media_attachments', [])
MediaOf(post) ==
    IF "media_attachments" \in post.has THEN post.media_attachments ELSE <<>>

\* the conversion raises (KeyError or a validation error, turned into
\* HTTPException(500, "Conversion error")) exactly when this is false
Converts(post) ==
    /\ {"id", "content", "created_at", "account", "visibility"} \subseteq post.has
    /\ {"display_name", "username"} \subseteq post.account.has
    /\ \A i \in 1..Len(MediaOf(post)) : MediaConverts(MediaOf(post)[i])

Memo(post, now) ==
    LET created_ts == datetime_to_timestamp(post.created_at, now)
    IN  [id |-> str(post.id),
         creatorId |-> 1,
         creatorName |-> post.account.display_name,
         creatorUsername |-> post.account.username,
         createdTs |-> created_ts,
         updatedTs |-> created_ts,
         displayTs |-> created_ts,
         content |-> clean_html_content(post.content),
         resourceList |-> [i \in 1..Len(MediaOf(post)) |-> MemoResource(MediaOf(post)[i])],
         relationList |-> <<>>,
         visibility |-> IF post.visibility = "public" THEN "PUBLIC" ELSE "PRIVATE",
         pinned |-> IF "pinned" \in post.has THEN post.pinned ELSE FALSE,
         rowStatus |-> "NORMAL"]

\* the conversion reads the clock: the id and the content are there and the
\* timestamp is there and does not parse
ReadsClock(post) ==
    /\ {"id", "content", "created_at"} \subseteq post.has
    /\ ~ fromisoformat(post.created_at).ok

\* convert_mastodon_to_memo: [ok |-> FALSE] stands for the raised
\* HTTPException(500, "Conversion error")
convert_mastodon_to_memo(post, now) ==
    IF Converts(post)
    THEN [ok |-> TRUE, memo |-> <<Memo(post, now)>>]
    ELSE [ok |-> FALSE, memo |-> <<>>]

\* ------------------------------------------------------ upstream contents
Html1 == <<TextNode("Hi "), Anchor("http://x.co", "there")>>
Html2 == <<Anchor("http://x.co", "http://x.co"), TextNode("  "), Anchor("", "there")>>

GoodAccount == MkAccount(<<"a">>, <<"A">>)

MediaPool ==
    {MkMedia(<<"image">>, <<Str("u1")>>, r) : r \in Opt({None, Str(""), Str("r1")})}
    \cup {MkMedia(<<"image">>, <<Str("")>>, <<>>), MkMedia(<<"image">>, <<>>, <<Str("r1")>>)}

\* the posts the upstream can answer the single-record lookup with
SinglePosts ==
    {MkPost(i, c, t, a, v, p, m) :
        i \in Opt({Str("101"), Num("102")}),
        c \in Opt({Html1}),
        t \in Opt({"2024-01-01T00:00:00Z", "not-a-date"}),
        a \in Opt({GoodAccount, MkAccount(<<>>, <<"A">>)}),
        v \in Opt({"public", "unlisted"}),
        p \in Opt({TRUE}),
        m \in Opt(SeqUpTo(MediaPool, MaxMedia))}

\* the posts the upstream puts in the pages of the account timeline
WalkPosts ==
    { MkPost(<<Num("102")>>, <<Html1>>, <<"2024-01-01T08:00:01.900+08:00">>, <<GoodAccount>>,
             <<"public">>, <<>>,
             <<<<MkMedia(<<"image">>, <<Str("u1")>>, <<Str("r1")>>)>>>>),
      MkPost(<<Num("0")>>, <<>>, <<"2024-01-01T00:00:00+00:00">>, <<GoodAccount>>,
             <<"public">>, <<>>, <<>>),
      MkPost(<<Str("")>>, <<Html2>>, <<"not-a-date">>, <<GoodAccount>>,
             <<"unlisted">>, <<TRUE>>,
             <<<<MkMedia(<<"video">>, <<Str("u1")>>, <<None>>)>>>>),
      MkPost(<<>>, <<Html1>>, <<"2024-01-01T00:00:00Z">>, <<GoodAccount>>,
             <<"public">>, <<>>, <<>>) }

\* the pages of at most `limit` posts
Pages == SeqUpTo(WalkPosts, MAX_PAGE_SIZE)

\* --------------------------------------------------------------- upstream
\* HTTP error statuses the upstream answers with (httpx.HTTPStatusError)
ErrorStatus == {401, 404, 503}
\* failures that are not an HTTP status: timeout, network error and a body
\* that is not JSON (all caught by `except Exception`)
FailureKinds == {"timeout", "network", "decode"}

Failures ==
    {[kind |-> "http", status |-> s, posts |-> <<>>] : s \in ErrorStatus}
    \cup {[kind |-> k, status |-> 0, posts |-> <<>>] : k \in FailureKinds}

\* replies to GET /api/v1/accounts/{id}/statuses
PageReplies == {[kind |-> "ok", status |-> 200, posts |-> ps] : ps \in Pages} \cup Failures

\* replies to GET /api/v1/statuses/{memo_id}
StatusReplies == {[kind |-> "ok", status |-> 200, posts |-> <<p>>] : p \in SinglePosts} \cup Failures

\* replies to GET /api/v1/accounts/{id}: the profile object or a failure
AccountReplies ==
    {[kind |-> "ok", status |-> 200, account |-> a] :
        a \in {MkAccount(<<"alice">>, <<"Alice">>), MkAccount(<<>>, <<"Alice">>)}}
    \cup {[kind |-> "http", status |-> s, account |-> MkAccount(<<>>, <<>>)] : s \in ErrorStatus}
    \cup {[kind |-> k, status |-> 0, account |-> MkAccount(<<>>, <<>>)] : k \in FailureKinds}

NoAccountReply == [kind |-> "none", status |-> 0, account |-> MkAccount(<<>>, <<>>)]

\* ------------------------------------------------------------------ state
VARIABLES
    op,             \* the entry point being served ("none" before the call)
    pc,             \* its position: "idle", "loop", "fetched", "done"
    args,           \* the arguments of the call
    all_posts,      \* fetch_all_mastodon_posts: the accumulated posts
    max_id,         \* fetch_all_mastodon_posts: the cursor
    iter,           \* fetch_all_mastodon_posts: iterations of the loop started
    requests,       \* the requests sent to the upstream, in order
    replies,        \* the upstream's replies, in order
    fetch_result,   \* outcome of fetch_all_mastodon_posts
    account_reply,  \* the upstream's reply to the profile request
    account_result, \* outcome of get_mastodon_account_info
    response,       \* what the caller of a route handler receives
    clock           \* the readings of the current time made while answering

vars == <<op, pc, args, all_posts, max_id, iter, requests, replies, fetch_result,
          account_reply, account_result, response, clock>>

NoArgs ==
    [max_pages |-> 0, exclude_replies |-> TRUE, exclude_reblogs |-> TRUE,
     creatorId |-> <<>>, rowStatus |-> <<>>, limit |-> <<>>, id |-> ""]

\* outcomes of a call: a returned value or a raised HTTPException
Pending == [kind |-> "pending", status |-> 0, detail |-> "", posts |-> <<>>]
Returned(posts) == [kind |-> "return", status |-> 0, detail |-> "", posts |-> posts]
Raised(status, detail) == [kind |-> "raise", status |-> status, detail |-> detail, posts |-> <<>>]

NoAccountResult == [kind |-> "pending", status |-> 0, detail |-> "", info |-> MkAccount(<<>>, <<>>)]

\* what the caller of a route handler receives
NoResponse == [status |-> 0, detail |-> "", body |-> <<>>]
Ok(body) == [status |-> 200, detail |-> "", body |-> body]
HTTPException(status, detail) == [status |-> status, detail |-> detail, body |-> <<>>]

Init ==
    /\ op = "none"
    /\ pc = "idle"
    /\ args = NoArgs
    /\ all_posts = <<>>
    /\ max_id = None
    /\ iter = 0
    /\ requests = <<>>
    /\ replies = <<>>
    /\ fetch_result = Pending
    /\ account_reply = NoAccountReply
    /\ account_result = NoAccountResult
    /\ response = NoResponse
    /\ clock = <<>>

\* ------------------------------------------------ fetch_all_mastodon_posts
\* <<exclude_replies, exclude_reblogs>> of a direct call: the defaults of the
\* signature (get_memos passes every combination of the two, see Queries)
ExcludeFlags == {<<TRUE, TRUE>>}

\* where control goes when fetch_all_mastodon_posts ends
AfterFetch == IF op = "get_memos" THEN "fetched" ELSE "done"

\* the query parameters of a page request: max_id only `if max_id:`
page_params(a, cursor) ==
    [endpoint |-> "account_statuses",
     id |-> "MASTODON_ACCOUNT_ID",
     limit |-> MAX_PAGE_SIZE,
     exclude_replies |-> a.exclude_replies,
     exclude_reblogs |-> a.exclude_reblogs,
     has_max_id |-> Truthy(cursor),
     max_id |-> IF Truthy(cursor) THEN cursor ELSE None]

\* a loop that runs one iteration too many
range_continues_inclusive(i, max_pages) == i <= max_pages

\* `for _ in range(max_pages)` has another iteration
range_continues(i, max_pages) == i < max_pages

\* a walk that also stops at a page of a single post
page_is_empty_short(posts) == Len(posts) <= 1

\* `if not posts: break`
page_is_empty(posts) == posts = <<>>

\* a walk that keeps only the last page it received
extend_replace(all, posts) == posts

\* all_posts.extend(posts)
extend(all, posts) == all \o posts

\* a walk that treats a 401 like any other failure
is_auth_failure_never(reply) == FALSE

\* `if e.response.status_code == 401`
is_auth_failure(reply) == reply.kind = "http" /\ reply.status = 401

\* the walk is entered and the client is opened; with no iteration to run
\* the `async with` block is left at once
StartWalk(max_pages) ==
    /\ all_posts' = <<>>
    /\ max_id' = None
    /\ iter' = 0
    /\ fetch_result' = Pending
    /\ pc' = IF range_continues(0, max_pages) THEN "loop" ELSE "close_return"

\* a direct call fetch_all_mastodon_posts(max_pages, exclude_replies, exclude_reblogs)
fetch_all_mastodon_posts ==
    /\ pc = "idle"
    /\ \E mp \in 0..MaxCeiling, ex \in ExcludeFlags :
          /\ op' = "fetch_all_mastodon_posts"
          /\ args' = [NoArgs EXCEPT !.max_pages = mp, !.exclude_replies = ex[1],
                                    !.exclude_reblogs = ex[2]]
          /\ StartWalk(mp)
    /\ UNCHANGED <<requests, replies, account_reply, account_result, response, clock>>

\* the first half of an iteration: the parameters are built and the page
\* request is sent; the walk is suspended at `await client.get(...)`
request_page ==
    /\ pc = "loop"
    /\ range_continues(iter, args.max_pages)
    /\ requests' = Append(requests, page_params(args, max_id))
    /\ pc' = "await_page"
    /\ UNCHANGED <<op, args, all_posts, max_id, iter, replies, fetch_result,
                   account_reply, account_result, response, clock>>

\* the second half of an iteration: the walk is resumed with the upstream's
\* reply and the loop body handles it, up to the next request or to the
\* exit of the `async with` block (by break, by the end of the loop, or by
\* the raised HTTPException), where the walk is suspended again while the
\* client is closed
receive_page ==
    /\ pc = "await_page"
    /\ \E reply \in PageReplies :
          /\ replies' = Append(replies, reply)
          /\ IF reply.kind = "ok"
             THEN IF page_is_empty(reply.posts)
                  THEN \* break
                       /\ pc' = "close_return"
                       /\ UNCHANGED <<all_posts, max_id, iter>>
                  ELSE /\ all_posts' = extend(all_posts, reply.posts)
                       /\ IF "id" \in Last(reply.posts).has
                          THEN /\ max_id' = Last(reply.posts).id
                               /\ iter' = iter + 1
                               /\ pc' = IF range_continues(iter + 1, args.max_pages)
                                        THEN "loop" ELSE "close_return"
                          ELSE \* KeyError on posts[-1]['id']: except Exception, break
                               /\ pc' = "close_return"
                               /\ UNCHANGED <<max_id, iter>>
             ELSE /\ pc' = IF is_auth_failure(reply) THEN "close_raise" ELSE "close_return"
                  /\ UNCHANGED <<all_posts, max_id, iter>>
    /\ UNCHANGED <<op, args, requests, fetch_result, account_reply, account_result,
                   response, clock>>

\* the client is closed and the walk ends: `return all_posts` after the
\* block, or the HTTPException raised inside it
close_client ==
    /\ pc \in {"close_return", "close_raise"}
    /\ fetch_result' = IF pc = "close_raise"
                       THEN Raised(401, "Authentication failed")
                       ELSE Returned(all_posts)
    /\ pc' = AfterFetch
    /\ UNCHANGED <<op, args, all_posts, max_id, iter, requests, replies,
                   account_reply, account_result, response, clock>>

\* -------------------------------------------------------------- get_memos
Min(a, b) == IF a < b THEN a ELSE b
Max(a, b) == IF a > b THEN a ELSE b

\* the Python slice s[:n]
SlicePrefix(s, n) ==
    IF n >= 0 THEN SubSeq(s, 1, Min(n, Len(s))) ELSE SubSeq(s, 1, Max(Len(s) + n, 0))

\* `not creatorId or memo.creatorId == creatorId` and
\* `not rowStatus or memo.rowStatus == rowStatus`
passes_filters(memo, creatorId, rowStatus) ==
    /\ creatorId = <<>> \/ creatorId[1] = 0 \/ memo.creatorId = creatorId[1]
    /\ rowStatus = <<>> \/ rowStatus[1] = "" \/ memo.rowStatus = rowStatus[1]

\* the number of clock readings the conversion of the posts makes
RECURSIVE ClockReads(_)
ClockReads(posts) ==
    IF posts = <<>> THEN 0
    ELSE (IF ReadsClock(Head(posts)) THEN 1 ELSE 0) + ClockReads(Tail(posts))

\* the conversion loop: a post whose conversion raises is skipped (continue);
\* nows holds the clock readings the conversions make, in order
RECURSIVE collect_memos(_, _, _, _)
collect_memos(posts, creatorId, rowStatus, nows) ==
    IF posts = <<>> THEN <<>>
    ELSE LET reads == ReadsClock(Head(posts))
             c == convert_mastodon_to_memo(Head(posts), IF reads THEN Head(nows) ELSE 0)
             rest == collect_memos(Tail(posts), creatorId, rowStatus,
                                   IF reads THEN Tail(nows) ELSE nows)
         IN  IF c.ok /\ passes_filters(c.memo[1], creatorId, rowStatus)
             THEN c.memo \o rest
             ELSE rest

\* min(limit or len(memos), MAX_PAGE_SIZE * MAX_PAGES)
actual_limit(limit, memos) ==
    Min(IF limit = <<>> \/ limit[1] = 0 THEN Len(memos) ELSE limit[1],
        MAX_PAGE_SIZE * MAX_PAGES)

\* a list query that gives up on the first post that fails to convert
get_memos_body_abort(posts, a, nows) ==
    IF \E i \in 1..Len(posts) : ~ Converts(posts[i])
    THEN HTTPException(500, "Internal server error")
    ELSE LET memos == collect_memos(posts, a.creatorId, a.rowStatus, nows)
         IN  Ok(SlicePrefix(memos, actual_limit(a.limit, memos)))

\* the body of get_memos after the walk has returned its posts
get_memos_body(posts, a, nows) ==
    LET memos == collect_memos(posts, a.creatorId, a.rowStatus, nows)
    IN  Ok(SlicePrefix(memos, actual_limit(a.limit, memos)))

\* an HTTPException raised by the walk is not an httpx.HTTPError: it is
\* caught by `except Exception` and answered as the internal error
get_memos_after_fetch(fetched, a, nows) ==
    IF fetched.kind = "raise"
    THEN HTTPException(500, "Internal server error")
    ELSE get_memos_body(fetched.posts, a, nows)

\* the query parameters of the list query: creatorId, rowStatus, limit,
\* exclude_replies, exclude_reblogs (<<>> is an omitted optional parameter)
Query(c, r, l, er, eb) ==
    [NoArgs EXCEPT !.max_pages = MAX_PAGES, !.creatorId = c, !.rowStatus = r,
                   !.limit = l, !.exclude_replies = er, !.exclude_reblogs = eb]

Queries ==
    { Query(<<>>, <<"NORMAL">>, <<>>, TRUE, TRUE),
      Query(<<1>>, <<"NORMAL">>, <<1>>, TRUE, TRUE),
      Query(<<2>>, <<"NORMAL">>, <<>>, FALSE, TRUE),
      Query(<<>>, <<"ARCHIVED">>, <<>>, TRUE, FALSE),
      Query(<<0>>, <<"">>, <<0>>, FALSE, FALSE),
      Query(<<>>, <<"NORMAL">>, <<-1>>, TRUE, TRUE),
      Query(<<1>>, <<"">>, <<2>>, TRUE, TRUE),
      Query(<<>>, <<"NORMAL">>, <<5>>, TRUE, TRUE) }

\* GET /api/v1/memo: the handler starts the walk with the default ceiling
get_memos ==
    /\ pc = "idle"
    /\ \E q \in Queries :
          /\ op' = "get_memos"
          /\ args' = q
          /\ StartWalk(MAX_PAGES)
    /\ UNCHANGED <<requests, replies, account_reply, account_result, response, clock>>

\* the handler resumes when the walk has ended
get_memos_resume ==
    /\ pc = "fetched"
    /\ op = "get_memos"
    /\ \E nows \in Readings(ClockReads(fetch_result.posts)) :
          /\ clock' = nows
          /\ response' = get_memos_after_fetch(fetch_result, args, nows)
    /\ pc' = "done"
    /\ UNCHANGED <<op, args, all_posts, max_id, iter, requests, replies, fetch_result,
                   account_reply, account_result>>

\* --------------------------------------------------------------- get_memo
MemoIds == {"101", "AbC"}

status_request(memo_id) ==
    [endpoint |-> "status", id |-> memo_id, limit |-> 0, exclude_replies |-> FALSE,
     exclude_reblogs |-> FALSE, has_max_id |-> FALSE, max_id |-> None]

\* the answer of get_memo to the upstream's reply
get_memo_response(reply, nows) ==
    IF reply.kind = "ok"
    THEN LET c == convert_mastodon_to_memo(reply.posts[1],
                                           IF nows = <<>> THEN 0 ELSE nows[1])
         IN  IF c.ok THEN Ok(c.memo[1])
             ELSE \* the raised "Conversion error" is caught by `except Exception`
                  HTTPException(500, "Internal server error")
    ELSE IF reply.kind = "http"
    THEN IF reply.status = 401 THEN HTTPException(401, "Authentication failed")
         ELSE IF reply.status = 404 THEN HTTPException(404, "Memo not found")
         ELSE HTTPException(reply.status, "Failed to fetch memo")
    ELSE HTTPException(500, "Internal server error")

\* GET /api/v1/memo/{memo_id}: the handler sends the status request and is
\* suspended at `await client.get(...)`
get_memo ==
    /\ pc = "idle"
    /\ \E memo_id \in MemoIds :
          /\ op' = "get_memo"
          /\ args' = [NoArgs EXCEPT !.id = memo_id]
          /\ requests' = <<status_request(memo_id)>>
    /\ pc' = "await_status"
    /\ UNCHANGED <<all_posts, max_id, iter, replies, fetch_result, account_reply,
                   account_result, response, clock>>

\* the handler is resumed with the upstream's reply and converts it (the
\* conversion reads the clock when the timestamp does not parse); it is
\* suspended again at the exit of the `async with` block
get_memo_resume ==
    /\ pc = "await_status"
    /\ op = "get_memo"
    /\ \E reply \in StatusReplies :
        \E nows \in Readings(ClockReads(reply.posts)) :
          /\ replies' = <<reply>>
          /\ clock' = nows
    /\ pc' = "close_status"
    /\ UNCHANGED <<op, args, all_posts, max_id, iter, requests, fetch_result,
                   account_reply, account_result, response>>

\* the client is closed and the caller receives the record converted from
\* the reply, or the HTTPException raised for it
get_memo_return ==
    /\ pc = "close_status"
    /\ op = "get_memo"
    /\ response' = get_memo_response(replies[1], clock)
    /\ pc' = "done"
    /\ UNCHANGED <<op, args, all_posts, max_id, iter, requests, replies, fetch_result,
                   account_reply, account_result, clock>>

\* ---------------------------------------------- get_mastodon_account_info
\* the request for the profile of settings.MASTODON_ACCOUNT_ID
account_request ==
    [endpoint |-> "account", id |-> "MASTODON_ACCOUNT_ID", limit |-> 0,
     exclude_replies |-> FALSE, exclude_reblogs |-> FALSE, has_max_id |-> FALSE,
     max_id |-> None]

Placeholder == MkAccount(<<"unknown">>, <<"Unknown User">>)

AccountReturned(info) == [kind |-> "return", status |-> 0, detail |-> "", info |-> info]
AccountRaised(status, detail) ==
    [kind |-> "raise", status |-> status, detail |-> detail, info |-> MkAccount(<<>>, <<>>)]

\* the profile on success; an HTTPException on an HTTP error status; the
\* placeholder on any other failure
get_mastodon_account_info(reply) ==
    IF reply.kind = "ok" THEN AccountReturned(reply.account)
    ELSE IF reply.kind = "http"
    THEN IF reply.status = 401
         THEN AccountRaised(401, "Authentication failed")
         ELSE AccountRaised(reply.status, "Failed to fetch account info")
    ELSE AccountReturned(Placeholder)

\* get_mastodon_account_info is resumed with the upstream's reply: its
\* outcome is decided inside the `async with` block, and it is suspended
\* again at the exit of the block, before the handler receives the outcome
account_info_reply ==
    /\ pc = "await_account"
    /\ \E reply \in AccountReplies :
          /\ account_reply' = reply
          /\ account_result' = get_mastodon_account_info(reply)
    /\ pc' = "close_account"
    /\ UNCHANGED <<op, args, all_posts, max_id, iter, requests, replies, fetch_result,
                   response, clock>>

\* account_info.get('username', 'unknown')
username_of(info) == IF "username" \in info.has THEN info.username ELSE "unknown"

\* ---------------------------------------------------- redirect_to_mastodon
\* the path between "/@{username}/" and the post id, by instance type
path_of(instance_type) ==
    CASE instance_type = "gotosocial" -> "statuses/"
      [] instance_type = "pleroma" -> "posts/"
      [] OTHER -> ""

redirect_response(acc, instance_type, post_id) ==
    IF acc.kind = "raise"
    THEN HTTPException(500, "Error processing redirect")
    ELSE [status |-> 307, detail |-> "",
          body |-> [base |-> "MASTODON_BASE_URL", username |-> username_of(acc.info),
                    path |-> path_of(instance_type), post_id |-> post_id]]

\* GET /m/{post_id}: the handler calls get_mastodon_account_info, which sends
\* the profile request and is suspended at `await client.get(...)`
redirect_to_mastodon ==
    /\ pc = "idle"
    /\ \E post_id \in MemoIds :
          /\ op' = "redirect_to_mastodon"
          /\ args' = [NoArgs EXCEPT !.id = post_id]
    /\ requests' = <<account_request>>
    /\ pc' = "await_account"
    /\ UNCHANGED <<all_posts, max_id, iter, replies, fetch_result, account_reply,
                   account_result, response, clock>>

\* the client of get_mastodon_account_info is closed: the handler receives
\* the outcome of the profile fetch and builds the redirect;
\* settings.INSTANCE_TYPE is read from the configuration at that moment
redirect_to_mastodon_resume ==
    /\ pc = "close_account"
    /\ op = "redirect_to_mastodon"
    /\ \E instance_type \in InstanceType :
          response' = redirect_response(account_result, instance_type, args.id)
    /\ pc' = "done"
    /\ UNCHANGED <<op, args, all_posts, max_id, iter, requests, replies, fetch_result,
                   account_reply, account_result, clock>>

\* ------------------------------------------------------------- get_status
\* str(e) of the HTTPException raised by get_mastodon_account_info
exception_str(acc) ==
    CASE acc.status = 401 -> "401: Authentication failed"
      [] acc.status = 404 -> "404: Failed to fetch account info"
      [] acc.status = 503 -> "503: Failed to fetch account info"
      [] OTHER -> "500: Failed to fetch account info"

status_response(acc, nows) ==
    IF acc.kind = "raise"
    THEN HTTPException(500, exception_str(acc))
    ELSE Ok([time |-> nows[1], login |-> username_of(acc.info)])

\* GET /api/v1/status: the handler calls get_mastodon_account_info, which
\* sends the profile request and is suspended at `await client.get(...)`
get_status ==
    /\ pc = "idle"
    /\ op' = "get_status"
    /\ args' = NoArgs
    /\ requests' = <<account_request>>
    /\ pc' = "await_account"
    /\ UNCHANGED <<all_posts, max_id, iter, replies, fetch_result, account_reply,
                   account_result, response, clock>>

\* the client of get_mastodon_account_info is closed: the handler receives
\* the outcome of the profile fetch, reads the clock at that moment when the
\* fetch did not raise, and answers
get_status_resume ==
    /\ pc = "close_account"
    /\ op = "get_status"
    /\ \E nows \in Readings(IF account_result.kind = "raise" THEN 0 ELSE 1) :
          /\ clock' = nows
          /\ response' = status_response(account_result, nows)
    /\ pc' = "done"
    /\ UNCHANGED <<op, args, all_posts, max_id, iter, requests, replies, fetch_result,
                   account_reply, account_result>>

\* ------------------------------------------------------------------- spec
\* the steps of one request from its arrival to its answer. The handlers
\* keep their state in locals and share no mutable state, so the steps that
\* the event loop gives to other requests while this one is suspended leave
\* these variables unchanged: they are the stuttering steps of Spec.
Next ==
    \/ fetch_all_mastodon_posts
    \/ request_page
    \/ receive_page
    \/ close_client
    \/ get_memos
    \/ get_memos_resume
    \/ get_memo
    \/ get_memo_resume
    \/ get_memo_return
    \/ redirect_to_mastodon
    \/ account_info_reply
    \/ redirect_to_mastodon_resume
    \/ get_status
    \/ get_status_resume

Spec == Init /\ [][Next]_vars

\* ----------------------------------------------------------- vocabulary
IsWalk == op \in {"fetch_all_mastodon_posts", "get_memos"}
WalkEnded == fetch_result.kind # "pending"
\* the walk is in its loop: about to send a page request, or suspended with
\* a page request in flight
WalkRunning == pc \in {"loop", "await_page"}
\* the walk has left its loop and is closing its client: it is about to
\* return its accumulated posts, or to raise
WalkReturning == pc = "close_return"
WalkRaising == pc = "close_raise"

\* the walk has left its loop to return the given posts, or has returned them
Returns(posts) ==
    /\ ~ WalkRunning
    /\ ~ WalkRaising
    /\ WalkReturning => all_posts = posts
    /\ WalkEnded => fetch_result = Returned(posts)

\* the walk has left its loop raising the authentication failure, or has
\* raised it
RaisesAuthFailure ==
    /\ ~ WalkRunning
    /\ ~ WalkReturning
    /\ WalkEnded => fetch_result = Raised(401, "Authentication failed")

\* the k-th page request succeeded / returned an empty page / failed
PageOk(k) == replies[k].kind = "ok"
PageEmpty(k) == PageOk(k) /\ replies[k].posts = <<>>
PageAuthFailed(k) == replies[k].kind = "http" /\ replies[k].status = 401
PageFailed(k) == ~ PageOk(k) /\ ~ PageAuthFailed(k)

\* the concatenation, in order, of the first n pages received
PagesUpTo(n) == Concat([k \in 1..n |-> replies[k].posts])

\* C1: in a walk whose page requests all succeed, an empty page is the last
\* page requested (no request follows it), the walk has then ended, and the
\* walk returns the in-order concatenation of the pages received before it;
\* whenever such a walk ends it returns the concatenation of its pages.
C1_StopsAtEmptyPage ==
    (IsWalk /\ \A k \in 1..Len(replies) : PageOk(k)) =>
        /\ \A k \in 1..Len(replies) : PageEmpty(k) =>
              /\ k = Len(replies)
              /\ Len(requests) = k
              /\ Returns(PagesUpTo(k - 1))
        /\ WalkEnded => fetch_result = Returned(PagesUpTo(Len(replies)))

\* pages of sizes [N, N, 0] with N = MAX_PAGE_SIZE: three requests, and the
\* first two pages returned
C1_Witness ==
    /\ op = "fetch_all_mastodon_posts"
    /\ pc = "done"
    /\ Len(requests) = 3
    /\ Len(replies) = 3
    /\ Len(replies[1].posts) = MAX_PAGE_SIZE
    /\ Len(replies[2].posts) = MAX_PAGE_SIZE
    /\ replies[1].posts # replies[2].posts
    /\ PageEmpty(3)
    /\ fetch_result = Returned(replies[1].posts \o replies[2].posts)

\* every page received so far succeeded and is non-empty
AllPagesFull == \A k \in 1..Len(replies) : PageOk(k) /\ replies[k].posts # <<>>

\* every page received so far ends with an item that has an id
AllLastItemsHaveId ==
    \A k \in 1..Len(replies) :
        (PageOk(k) /\ replies[k].posts # <<>>) => "id" \in Last(replies[k].posts).has

\* the walk never sends more requests than the ceiling; while it runs the
\* number of replies handled is the loop index, below the ceiling, and one
\* request more than that has been sent exactly while a request is in flight
C2_Bounded ==
    IsWalk =>
        /\ Len(requests) <= args.max_pages
        /\ Len(requests) = Len(replies) + (IF pc = "await_page" THEN 1 ELSE 0)
        /\ WalkRunning => (iter = Len(replies) /\ iter < args.max_pages)

\* C2 as stated: at most max_pages requests, and exactly max_pages requests
\* and the concatenation of max_pages pages when every page is non-empty and
\* succeeds.
C2_Original ==
    /\ C2_Bounded
    /\ (IsWalk /\ WalkEnded /\ AllPagesFull) =>
          /\ Len(requests) = args.max_pages
          /\ fetch_result = Returned(PagesUpTo(args.max_pages))

\* the walk issued exactly max_pages requests and returns the concatenation
\* of its pages when every page succeeds, is non-empty and ends with an item
\* that has an id
C2_FullWalk ==
    (IsWalk /\ WalkEnded /\ AllPagesFull /\ AllLastItemsHaveId) =>
        /\ Len(requests) = args.max_pages
        /\ fetch_result = Returned(PagesUpTo(args.max_pages))

\* a step of the walk: at the top of an iteration one request is sent; with
\* a request in flight the reply either makes the walk leave its loop or
\* moves the loop index one step towards the ceiling, and no request is
\* sent; a walk that has left its loop ends without another request
C2_Iteration ==
    /\ (pc = "loop") =>
          (pc' = "await_page" /\ Len(requests') = Len(requests) + 1 /\ iter' = iter)
    /\ (pc = "await_page") =>
          /\ requests' = requests
          /\ \/ WalkReturning' \/ WalkRaising'
             \/ pc' = "loop" /\ iter' = iter + 1 /\ iter' < args.max_pages
    /\ (WalkReturning \/ WalkRaising) => (WalkEnded' /\ requests' = requests)

\* C2 amended: the walk ends after at most max_pages requests (every
\* iteration sends one request, and its reply either ends the walk or moves
\* the loop index one step towards the ceiling); it issues exactly max_pages
\* requests and returns the concatenation of max_pages pages when every page
\* succeeds, is non-empty and ends with an item that has an id.
C2_Ceiling ==
    /\ [](C2_Bounded /\ C2_FullWalk)
    /\ [][C2_Iteration]_vars

\* ceiling 2 and pages that are never empty: two requests, two pages' worth
\* of posts
C2_Witness ==
    /\ op = "fetch_all_mastodon_posts"
    /\ args.max_pages = 2
    /\ pc = "done"
    /\ AllPagesFull
    /\ AllLastItemsHaveId
    /\ Len(requests) = 2
    /\ Len(fetch_result.posts) = 2 * MAX_PAGE_SIZE

\* C3: the first page request carries no max_id, and every later one
\* carries max_id equal to the id of the last item of the preceding page.
C3_Cursor ==
    IsWalk =>
        \A k \in 1..Len(requests) :
            IF k = 1
            THEN ~ requests[k].has_max_id
            ELSE /\ requests[k].has_max_id
                 /\ requests[k].max_id = Last(replies[k - 1].posts).id

\* C4: a 401 answer is the last page request of the walk (no retry, no
\* further page) and the walk raises the authentication failure instead of
\* returning what it accumulated.
C4_AuthAborts ==
    IsWalk =>
        \A k \in 1..Len(replies) : PageAuthFailed(k) =>
            /\ k = Len(replies)
            /\ Len(requests) = k
            /\ RaisesAuthFailure

\* a 401 on a later page, after posts were accumulated
C4_Witness ==
    /\ op = "fetch_all_mastodon_posts"
    /\ Len(replies) = 3
    /\ PageAuthFailed(3)
    /\ Len(all_posts) = 2 * MAX_PAGE_SIZE
    /\ fetch_result.kind = "raise"

\* C5: a page request that fails otherwise is the last request of the walk
\* and the walk returns, without raising, the concatenation of the pages
\* received before it.
C5_FailureTruncates ==
    IsWalk =>
        \A k \in 1..Len(replies) : PageFailed(k) =>
            /\ k = Len(replies)
            /\ Len(requests) = k
            /\ Returns(PagesUpTo(k - 1))

\* a timeout on the third page after two pages of posts
C5_Witness ==
    /\ op = "fetch_all_mastodon_posts"
    /\ Len(replies) = 3
    /\ replies[3].kind = "timeout"
    /\ fetch_result.kind = "return"
    /\ Len(fetch_result.posts) = 2 * MAX_PAGE_SIZE

\* ------------------------------------------------------------- list query
\* the list query has been answered after a walk that returned its posts
ListAnswered == op = "get_memos" /\ pc = "done" /\ fetch_result.kind = "return"

\* the positions in the batch of the posts that convert, in upstream order
Convertible ==
    LET IsConvertible(i) == Converts(fetch_result.posts[i])
    IN  SelectSeq([i \in 1..Len(fetch_result.posts) |-> i], IsConvertible)

\* the clock reading made for the post at position i of the batch (0 when
\* its conversion reads no clock)
ReadingFor(i) ==
    IF ReadsClock(fetch_result.posts[i])
    THEN clock[Cardinality({j \in 1..i : ReadsClock(fetch_result.posts[j])})]
    ELSE 0

\* creatorId and rowStatus let the records of this bridge through: every
\* record has creatorId 1 and rowStatus "NORMAL"
FiltersMatch ==
    /\ args.creatorId \in {<<>>, <<0>>, <<1>>}
    /\ args.rowStatus \in {<<>>, <<"">>, <<"NORMAL">>}

\* the converted records of the posts of the batch that convert and pass
\* the creatorId and rowStatus filters, in upstream order
Kept ==
    IF FiltersMatch
    THEN [n \in 1..Len(Convertible) |->
             Memo(fetch_result.posts[Convertible[n]], ReadingFor(Convertible[n]))]
    ELSE <<>>

\* the number of records the limit parameter lets through
LimitedLen ==
    LET n == IF args.limit \in {<<>>, <<0>>} THEN Len(Kept) ELSE args.limit[1]
        m == Min(n, MAX_PAGE_SIZE * MAX_PAGES)
    IN  IF m < 0 THEN Max(Len(Kept) + m, 0) ELSE Min(m, Len(Kept))

\* C6 as stated: a post that fails to convert is skipped without aborting
\* the request, and the response holds the converted record of every other
\* post that passes the filters, in upstream order.
C6_Original ==
    ListAnswered => response = Ok(Kept)

\* C6 amended: a post that fails to convert is skipped without aborting the
\* request; the response is the list, in upstream order, of the converted
\* records of the other posts that pass the creatorId and rowStatus filters,
\* cut to its first min(limit, MAX_PAGE_SIZE * MAX_PAGES) records when limit
\* is a positive number (shortened by -limit records when it is negative).
C6_SkipsMalformed ==
    ListAnswered =>
        /\ response.status = 200
        /\ response.body = SubSeq(Kept, 1, LimitedLen)
        /\ (args.limit = <<>> /\ Len(Kept) <= MAX_PAGE_SIZE * MAX_PAGES)
              => response.body = Kept

\* a batch whose first post has no content: the post after it is answered
C6_Witness ==
    /\ ListAnswered
    /\ args.limit = <<>>
    /\ Len(fetch_result.posts) = 2
    /\ "content" \notin fetch_result.posts[1].has
    /\ Converts(fetch_result.posts[2])
    /\ response = Ok(<<Memo(fetch_result.posts[2], ReadingFor(2))>>)

\* C7: an authorization failure of a page request during the list query
\* reaches the caller as 401 "Authentication failed".
C7_AuthFailureSurfaced ==
    (op = "get_memos" /\ pc = "done" /\ \E k \in 1..Len(replies) : PageAuthFailed(k)) =>
        /\ response.status = 401
        /\ response.detail = "Authentication failed"

\* an upstream request failed with a network failure or with an HTTP error
\* status other than 401 and 404
UpstreamUnavailable ==
    \E k \in 1..Len(replies) :
        \/ replies[k].kind \in {"timeout", "network"}
        \/ replies[k].kind = "http" /\ replies[k].status \notin {401, 404}

\* C8: a network or HTTP failure of an upstream request of the list query
\* or of the single-record lookup reaches the caller as an error that is
\* not the generic 500 "Internal server error".
C8_UpstreamErrorSurfaced ==
    (op \in {"get_memos", "get_memo"} /\ pc = "done" /\ UpstreamUnavailable) =>
        /\ response.status >= 400
        /\ ~ (response.status = 500 /\ response.detail = "Internal server error")

\* ---------------------------------------------------------------- account
AccountAnswered == op \in {"redirect_to_mastodon", "get_status"} /\ pc = "done"

\* the redirect or status answer built with the given username
AnsweredWith(username) ==
    IF op = "redirect_to_mastodon"
    THEN response.status = 307 /\ response.body.username = username
    ELSE response.status = 200 /\ response.body.login = username

\* C9: however the profile fetch fails, the placeholder account is returned
\* and the redirect / status operation completes with it.
C9_PlaceholderOnFailure ==
    (AccountAnswered /\ account_reply.kind # "ok") =>
        /\ account_result = AccountReturned(Placeholder)
        /\ AnsweredWith("unknown")

\* --------------------------------------------------------- external link
\* the single-record lookup answered with a converted record
RecordAnswered == op = "get_memo" /\ pc = "done" /\ response.status = 200

\* the attachments of the post the upstream answered with
Attachments == MediaOf(replies[1].posts[1])

\* the attachment has a remote URL that is present, not null and not ""
HasRemote(media) ==
    /\ "remote_url" \in media.has
    /\ media.remote_url.t = "str"
    /\ media.remote_url.v # ""

\* the resource records are the attachments, position by position, with
\* externalLink the remote URL when there is one, else the primary link
LinksFollowAttachments ==
    /\ Len(response.body.resourceList) = Len(Attachments)
    /\ \A i \in 1..Len(Attachments) :
          LET media == Attachments[i]
              res == response.body.resourceList[i]
          IN  /\ res.link = media.url.v
              /\ res.externalLink = IF HasRemote(media) THEN media.remote_url.v
                                    ELSE media.url.v

\* C10 as stated: externalLink is the remote URL when present and non-empty,
\* else the primary link, and is never the empty string.
C10_Original ==
    RecordAnswered =>
        /\ LinksFollowAttachments
        /\ \A i \in 1..Len(response.body.resourceList) :
              response.body.resourceList[i].externalLink # ""

\* C10 amended: externalLink is the remote URL when present and non-empty,
\* else the primary link; it is the empty string only for an attachment
\* whose primary link is the empty string and that has no non-empty remote
\* URL.
C10_ExternalLink ==
    RecordAnswered =>
        /\ LinksFollowAttachments
        /\ \A i \in 1..Len(response.body.resourceList) :
              response.body.resourceList[i].externalLink = "" =>
                  /\ Attachments[i].url.v = ""
                  /\ ~ HasRemote(Attachments[i])

\* a record with one attachment that has a remote URL and one that has none
C10_Witness ==
    /\ RecordAnswered
    /\ Len(Attachments) = 2
    /\ HasRemote(Attachments[1])
    /\ "remote_url" \notin Attachments[2].has
    /\ response.body.resourceList[1].externalLink = "r1"
    /\ response.body.resourceList[2].externalLink = "u1"
====
